---- MODULE Spec2Model ----
(***************************************************************************)
(* A model of headliner's Trainer (src/headliner/trainer.py): the          *)
(* vocabulary construction of _create_tokenizers, the one-time model       *)
(* initialisation of _init_model and the training loop of Trainer.train,   *)
(* together with EvaluationCallback.on_epoch_end                           *)
(* (src/headliner/callbacks/evaluation_callback.py).                       *)
(*                                                                         *)
(* Python values are represented as follows.  A text is the sequence of    *)
(* its maximal pieces: a piece is either a token (a run of non-whitespace  *)
(* characters) or WS (a run of whitespace).  None is the empty tuple and   *)
(* an optional value x is <<x>>.  A Counter / dict is the sequence of its  *)
(* <<key, value>> items in insertion order.                                *)
(***************************************************************************)
EXTENDS Integers, Sequences, FiniteSets, TLC

\* ------------------------------------------------------------------ bounds
\* Training loop (specification Spec).
MaxPairs == 2
MaxBatchSize == 2
MaxStepsPerEpoch == 2
MaxEpochs == 2
MaxCallbacks == 2
MaxValPairs == 1
MaxLoss == 2
\* Vocabulary construction (specification SpecVocab): pairs per corpus, tokens
\* per corpus, max_vocab_size.
MaxVocabPairs == 2
MaxCorpusTokens == 3
MaxVocabSize == 3
MaxBatchesToBucket == 2
MaxSeqLen == 2
MaxBucketInput == 4
MaxEvalPairs == 2
MaxScorers == 2
MaxPrintExamples == 2
MaxScore == 1

\* ------------------------------------------------------- program constants
START_TOKEN == "<start>"
END_TOKEN == "<end>"
OOV_TOKEN == "<unk>"
\* Trainer.__init__'s default for max_vocab_size.
DefaultMaxVocabSize == 200000

\* A run of whitespace inside a text.
WS == " "
None == <<>>

\* The tokens of the model's universe in Python's string order (code points:
\* "<" sorts before the letters, "<end>" < "<start>" < "<unk>").
SortedTokens == <<"<end>", "<start>", "<unk>", "a", "b">>

Range(s) == {s[i] : i \in 1..Len(s)}

Min(a, b) == IF a <= b THEN a ELSE b

\* ------------------------------------------------------------- vocabulary
\* str.split(): the tokens of a text, whitespace runs dropped.
Split(text) == SelectSeq(text, LAMBDA w : w # WS)

\* Preprocessor(start_token, end_token) applied to one side of a pair.
PreprocessText(text) == <<START_TOKEN, WS>> \o text \o <<WS, END_TOKEN>>

\* self.preprocessor(d) for a (source, target) pair d.
Preprocess(d) == <<PreprocessText(d[1]), PreprocessText(d[2])>>

\* Position of key k in the items of a dict, 0 when absent.
IndexOfKey(items, k) ==
    IF \E i \in 1..Len(items) : items[i][1] = k
    THEN CHOOSE i \in 1..Len(items) : items[i][1] = k
    ELSE 0

\* counter[k] += 1 for one key: a new key is appended (dicts keep insertion
\* order), a known key keeps its position.
CounterAdd(items, k) ==
    LET i == IndexOfKey(items, k)
    IN  IF i = 0 THEN Append(items, <<k, 1>>)
        ELSE [items EXCEPT ![i] = <<k, items[i][2] + 1>>]

\* Counter.update(tokens).
RECURSIVE CounterUpdate(_, _)
CounterUpdate(items, tokens) ==
    IF tokens = <<>> THEN items
    ELSE CounterUpdate(CounterAdd(items, Head(tokens)), Tail(tokens))

\* for text in texts: counter.update(text.split())
RECURSIVE CountTexts(_, _)
CountTexts(items, texts) ==
    IF texts = <<>> THEN items
    ELSE CountTexts(CounterUpdate(items, Split(Head(texts))), Tail(texts))

\* Mutant of InsertByCount: x goes before the items of equal count, so ties
\* come out last-seen first.
RECURSIVE InsertByCount_Unstable(_, _)
InsertByCount_Unstable(sorted, x) ==
    IF sorted = <<>> THEN <<x>>
    ELSE IF Head(sorted)[2] > x[2]
         THEN <<Head(sorted)>> \o InsertByCount_Unstable(Tail(sorted), x)
         ELSE <<x>> \o sorted

\* Insert item x into a sequence sorted by descending count, after every item
\* whose count is >= x's (a stable sort keeps first-seen order among ties).
RECURSIVE InsertByCount(_, _)
InsertByCount(sorted, x) ==
    IF sorted = <<>> THEN <<x>>
    ELSE IF Head(sorted)[2] >= x[2]
         THEN <<Head(sorted)>> \o InsertByCount(Tail(sorted), x)
         ELSE <<x>> \o sorted

\* sorted(items, key=count, reverse=True): stable, descending.
RECURSIVE SortByCountDesc(_, _)
SortByCountDesc(acc, items) ==
    IF items = <<>> THEN acc
    ELSE SortByCountDesc(InsertByCount(acc, Head(items)), Tail(items))

\* Counter.most_common(n): heapq.nlargest(n, items, key=count), which equals
\* sorted(items, key=count, reverse=True)[:n].
MostCommon(items, n) ==
    LET s == SortByCountDesc(<<>>, items)
    IN  SubSeq(s, 1, Min(n, Len(s)))

\* {token_count[0] for token_count in counter.most_common(max_vocab_size)}
\* updated with {START_TOKEN, END_TOKEN}.
SelectTokens(items, max_vocab_size) ==
    {tc[1] : tc \in Range(MostCommon(items, max_vocab_size))}
        \cup {START_TOKEN, END_TOKEN}

\* sorted(list(tokens)).
SortedList(tokens) == SelectSeq(SortedTokens, LAMBDA t : t \in tokens)

\* dict(zip(keys, range(1, len(keys) + 1))): a key that occurs twice keeps
\* the value of its last occurrence.
DictFromZip(keys) ==
    [k \in Range(keys) |->
        CHOOSE i \in 1..Len(keys) :
            /\ keys[i] = k
            /\ \A j \in 1..Len(keys) : keys[j] = k => j <= i]

\* Tokenizer(oov_token=OOV_TOKEN, filters='', lower=False).fit_on_texts(texts)
\* for texts of one token each: word_counts in order of appearance, then
\* sorted by count (stable), the oov token put first, ids from 1.
FitOnTexts(texts) ==
    LET word_counts == CounterUpdate(<<>>, texts)
        wcounts == SortByCountDesc(<<>>, word_counts)
        sorted_voc == <<OOV_TOKEN>> \o [i \in 1..Len(wcounts) |-> wcounts[i][1]]
    IN  [word_counts |-> word_counts, word_index |-> DictFromZip(sorted_voc)]

\* Mutant of ZipUnpackFails: an empty corpus unpacks to two empty tuples.
ZipUnpackFails_Never(preprocessed) == Len(preprocessed) < 0

\* train_text_encoder, train_text_decoder = zip(*train_data_preprocessed):
\* unpacking fails when the corpus is empty.
ZipUnpackFails(preprocessed) == Len(preprocessed) = 0

\* Trainer._create_tokenizers for a non-empty preprocessed corpus: the
\* encoder and the decoder tokenizer (their word_counts and word_index).
CreateTokenizers(preprocessed, max_vocab_size) ==
    LET train_text_encoder == [i \in 1..Len(preprocessed) |-> preprocessed[i][1]]
        train_text_decoder == [i \in 1..Len(preprocessed) |-> preprocessed[i][2]]
        counter_encoder == CountTexts(<<>>, train_text_encoder)
        counter_decoder == CountTexts(<<>>, train_text_decoder)
        tokens_encoder == SelectTokens(counter_encoder, max_vocab_size)
        tokens_decoder == SelectTokens(counter_decoder, max_vocab_size)
    IN  [encoder |-> FitOnTexts(SortedList(tokens_encoder)),
         decoder |-> FitOnTexts(SortedList(tokens_decoder))]

\* ------------------------------------------------------------ environment
\* The text whose tokens are the given ones, separated by whitespace.
RawText(tokens) ==
    [j \in 1..(2 * Len(tokens) - 1) |-> IF j % 2 = 1 THEN tokens[(j + 1) \div 2] ELSE WS]

\* The i-th (source, target) pair of the training corpora of Spec.
SamplePair(i) == <<RawText([j \in 1..i |-> "a"]), RawText(<<"b">>)>>

\* A corpus of n pairs.
Corpus(n) == [i \in 1..n |-> SamplePair(i)]

\* The tokens a raw text of SpecVocab is made of.
RawTokens == {"a", "b", OOV_TOKEN}

\* The token sequences of at most n tokens.
TokenSeqs(n) == UNION {[1..k -> RawTokens] : k \in 0..n}

\* The corpora of at most p pairs that hold at most n tokens altogether.
RECURSIVE Corpora(_, _)
Corpora(p, n) ==
    IF p = 0 THEN {<<>>}
    ELSE {<<>>} \cup UNION {
            UNION {
                {<<<<RawText(src), RawText(tgt)>>>> \o rest :
                    rest \in Corpora(p - 1, n - Len(src) - Len(tgt))}
                : tgt \in TokenSeqs(n - Len(src))}
            : src \in TokenSeqs(n)}

\* A vectorizer that was not built by this run (a custom one handed to the
\* Trainer, or the one of a loaded summarizer).
GivenVectorizer(kind) == [kind |-> kind, encoder |-> <<>>, decoder |-> <<>>]

\* Vectorizer(tokenizer_encoder, tokenizer_decoder).
Vectorizer(tokenizers) ==
    [kind |-> "built", encoder |-> tokenizers.encoder, decoder |-> tokenizers.decoder]

\* The names of a caller's callbacks list of length k.
CustomCallbacks(k) == [i \in 1..k |-> "callback" \o ToString(i)]

VARIABLES
    \* Trainer fields (Trainer.__init__)
    batch_size, max_vocab_size, glove_path, steps_per_epoch, vectorizer,
    \* arguments of Trainer.train
    summarizer, train_data, val_data, num_epochs, callbacks,
    \* how many items of a single-pass train_data / val_data are consumed
    train_pos, val_pos,
    \* locals of Trainer.train
    train_callbacks, logs, epoch_count, batch_count,
    \* the iteration over train_dataset.take(-1): the batches not yet pulled,
    \* the corpus positions this pass has read, the batches this pass yielded
    dataset_iter, pass_pairs, pass_batches,
    \* control: the position in train, the index of the callback to invoke
    \* next, the exception that ended the run
    pc, callback_index, error,
    \* call records of the collaborators
    init_model_calls, train_step_calls, save_calls, callback_calls,
    vocab_scans, last_call,
    \* read_glove calls, and the arguments of the last summarizer.init_model
    embedding_reads, init_model_args,
    \* the local train_loss, and the train_step calls that returned
    train_loss, train_steps_returned,
    \* whether the summarizer was bare when train was entered
    bare_on_entry,
    \* BucketGenerator: its configuration beside batch_size, the sequence it
    \* was called on, what is left of it, the sliced batches not yet yielded,
    \* the batches yielded, its position
    batches_to_bucket, shuffle, bucket_input, upstream, ready, emitted, bucket_pc,
    \* EvaluationCallback: its fields beside val_data, the logs it was handed,
    \* the locals of on_epoch_end, the positions of val_data not yet iterated,
    \* the records of predict_vectors, scorer and logger calls, its position
    scorers, print_num_examples, logs_on_entry, val_scores, count_val,
    eval_iter, predict_calls, scorer_calls, logged, eval_pc

vars == <<batch_size, max_vocab_size, steps_per_epoch, vectorizer, summarizer, train_data,
          val_data, num_epochs, callbacks, train_pos, val_pos, train_callbacks,
          logs, epoch_count, batch_count, dataset_iter, pass_pairs,
          pass_batches, pc, callback_index, error, init_model_calls,
          train_step_calls, save_calls, callback_calls, vocab_scans, last_call,
          bare_on_entry, glove_path, embedding_reads, init_model_args,
          train_loss, train_steps_returned,
          batches_to_bucket, shuffle, bucket_input, upstream, ready, emitted, bucket_pc,
          scorers, print_num_examples, logs_on_entry, val_scores, count_val,
          eval_iter, predict_calls, scorer_calls, logged, eval_pc>>

config == <<batch_size, max_vocab_size, glove_path, steps_per_epoch, vectorizer,
            train_data, val_data, num_epochs, callbacks, bare_on_entry>>

\* What only _init_model writes, and what only a returning train_step writes.
init_record == <<embedding_reads, init_model_args>>
step_record == <<train_loss, train_steps_returned>>

\* The locals and call records of Trainer.train that a callback and the
\* bucket generator cannot reach.
trainer_locals == <<summarizer, train_pos, train_callbacks, epoch_count, batch_count,
                    dataset_iter, pass_pairs, pass_batches, pc, callback_index,
                    init_model_calls, train_step_calls, save_calls, callback_calls,
                    vocab_scans, last_call>>

\* The state of a BucketGenerator call followed on its own.
bucketing == <<batches_to_bucket, shuffle, bucket_input, upstream, ready, emitted,
               bucket_pc>>

\* The state of an EvaluationCallback.on_epoch_end call followed on its own.
evaluation == <<scorers, print_num_examples, logs_on_entry, val_scores, count_val,
                eval_iter, predict_calls, scorer_calls, logged, eval_pc>>

\* ------------------------------------------------------------ data access
\* The corpus positions one iteration over data yields: a list is read from
\* its first item every time, a single-pass iterable from where the previous
\* iteration stopped.
Iterate(data, pos) ==
    IF data.kind = "list" THEN [i \in 1..Len(data.pairs) |-> i]
    ELSE [i \in 1..(Len(data.pairs) - pos) |-> pos + i]

\* The consumed count after an iteration that ran to exhaustion.
Exhaust(data, pos) == IF data.kind = "list" THEN pos ELSE Len(data.pairs)

\* Mutant of Batches: a short remainder is dropped.
Batches_DropShort(items, size) ==
    [b \in 1..(Len(items) \div size) |->
        SubSeq(items, (b - 1) * size + 1, b * size)]

\* The batches of one pass: batch_size items each, the last one possibly short.
Batches(items, size) ==
    [b \in 1..((Len(items) + size - 1) \div size) |->
        SubSeq(items, (b - 1) * size + 1, Min(b * size, Len(items)))]

\* ------------------------------------------------------- code conditions
\* Mutant of IsBare: "and" for "or".
IsBare_Both(s) == s.preprocessor = None /\ s.vectorizer = None

\* summarizer.preprocessor is None or summarizer.vectorizer is None
IsBare(s) == s.preprocessor = None \/ s.vectorizer = None

\* while epoch_count < num_epochs
LoopContinues(epochs, limit) == epochs < limit

\* Mutant of IsEpochEnd: a threshold for the modulo test.
IsEpochEnd_AtLeast(batches, steps) == batches >= steps

\* if batch_count % self.steps_per_epoch == 0
IsEpochEnd(batches, steps) == batches % steps = 0

\* if batch_count == 0: raise ValueError(...)
ZeroBatches(batches) == batches = 0

\* The callbacks train will invoke: the caller's list, else the defaults when
\* validation data is given, else the local stays unassigned.
SelectCallbacks(cbs, val) ==
    IF cbs # None THEN [bound |-> TRUE, list |-> cbs[1]]
    ELSE IF val # None
         THEN [bound |-> TRUE,
               list |-> <<"EvaluationCallback", "ValidationCallback",
                          "ModelCheckpointCallback", "TensorBoard">>]
         ELSE [bound |-> FALSE, list |-> <<>>]

NoCall == [op |-> "none", callback |-> 0, epoch |-> -1, logs |-> <<>>]

\* The locals, the cursors and the call records when train is entered.
Entry ==
    /\ train_pos = 0
    /\ val_pos = 0
    /\ train_callbacks = [bound |-> FALSE, list |-> <<>>]
    /\ logs = <<>>
    /\ epoch_count = 0
    /\ batch_count = 0
    /\ dataset_iter = <<>>
    /\ pass_pairs = <<>>
    /\ pass_batches = 0
    /\ pc = "start"
    /\ callback_index = 0
    /\ error = "none"
    /\ init_model_calls = 0
    /\ train_step_calls = 0
    /\ save_calls = 0
    /\ callback_calls = <<>>
    /\ vocab_scans = 0
    /\ last_call = NoCall
    /\ embedding_reads = 0
    /\ init_model_args = None
    /\ train_loss = None
    /\ train_steps_returned = 0
    /\ bare_on_entry = (summarizer.preprocessor = None \/ summarizer.vectorizer = None)

\* No BucketGenerator call is being followed.
BucketIdle ==
    /\ batches_to_bucket = 1
    /\ shuffle = TRUE
    /\ bucket_input = <<>>
    /\ upstream = <<>>
    /\ ready = <<>>
    /\ emitted = <<>>
    /\ bucket_pc = "idle"

\* No EvaluationCallback.on_epoch_end call is being followed step by step.
EvalIdle ==
    /\ scorers = <<"bleu_score">>
    /\ print_num_examples = 0
    /\ logs_on_entry = None
    /\ val_scores = <<>>
    /\ count_val = 0
    /\ eval_iter = <<>>
    /\ predict_calls = <<>>
    /\ scorer_calls = <<>>
    /\ logged = <<>>
    /\ eval_pc = "idle"

Init ==
    /\ batch_size \in 1..MaxBatchSize
    /\ max_vocab_size = DefaultMaxVocabSize
    /\ glove_path \in {None, <<"glove.txt">>}
    /\ steps_per_epoch \in 1..MaxStepsPerEpoch
    /\ vectorizer \in {None, <<GivenVectorizer("custom")>>}
    /\ summarizer \in [preprocessor : {None, <<"Preprocessor">>},
                       vectorizer : {None, <<GivenVectorizer("loaded")>>}]
    /\ train_data \in [kind : {"list", "generator"},
                       pairs : {Corpus(n) : n \in 0..MaxPairs}]
    /\ val_data \in {None} \cup
                    {<<d>> : d \in [kind : {"list", "generator"},
                                    pairs : {Corpus(n) : n \in 0..MaxValPairs}]}
    /\ num_epochs \in 0..MaxEpochs
    /\ callbacks \in {None} \cup {<<CustomCallbacks(k)>> : k \in 0..MaxCallbacks}
    /\ Entry
    /\ BucketIdle
    /\ EvalIdle

\* d[k] = v on a dict d.
SetItem(d, k, v) == [x \in (DOMAIN d) \cup {k} |-> IF x = k THEN v ELSE d[x]]

\* ----------------------------------------------------------- Trainer.train
\* if summarizer.preprocessor is None or summarizer.vectorizer is None:
\*     self._init_model(summarizer, train_data)
TrainEnter ==
    /\ pc = "start"
    /\ pc' = IF IsBare(summarizer) THEN "init_model" ELSE "prepare"
    /\ UNCHANGED <<config, bucketing, evaluation, init_record, step_record, summarizer, train_pos, val_pos, train_callbacks, logs,
                   epoch_count, batch_count, dataset_iter, pass_pairs,
                   pass_batches, callback_index, error, init_model_calls,
                   train_step_calls, save_calls, callback_calls, vocab_scans,
                   last_call>>

\* summarizer.init_model(preprocessor, vectorizer, ...): attaches both.
InitModelCall(s, v) == [s EXCEPT !.preprocessor = <<"Preprocessor">>, !.vectorizer = <<v>>]

\* The keyword arguments of a summarizer.init_model call; the preprocessor is
\* the Trainer's.
InitModelArgs(v, weights_encoder, weights_decoder) ==
    [preprocessor |-> "Preprocessor", vectorizer |-> v,
     embedding_weights_encoder |-> weights_encoder,
     embedding_weights_decoder |-> weights_decoder]

\* Mutant of InitModelCustom: train_data is iterated as for a vocabulary.
InitModelCustom_Consumes ==
    /\ pc = "init_model"
    /\ vectorizer # None
    /\ summarizer' = InitModelCall(summarizer, vectorizer[1])
    /\ init_model_args' = <<InitModelArgs(vectorizer[1], None, None)>>
    /\ init_model_calls' = init_model_calls + 1
    /\ last_call' = [NoCall EXCEPT !.op = "init_model"]
    /\ train_pos' = Exhaust(train_data, train_pos)
    /\ pc' = "prepare"
    /\ UNCHANGED <<config, bucketing, evaluation, embedding_reads, step_record, val_pos,
                   train_callbacks, logs, epoch_count, batch_count, dataset_iter,
                   pass_pairs, pass_batches, callback_index, error, train_step_calls,
                   save_calls, callback_calls, vocab_scans>>

\* Trainer._init_model with a custom vectorizer: train_data is not read.
InitModelCustom ==
    /\ pc = "init_model"
    /\ vectorizer # None
    /\ summarizer' = InitModelCall(summarizer, vectorizer[1])
    /\ init_model_args' = <<InitModelArgs(vectorizer[1], None, None)>>
    /\ init_model_calls' = init_model_calls + 1
    /\ last_call' = [NoCall EXCEPT !.op = "init_model"]
    /\ pc' = "prepare"
    /\ UNCHANGED <<config, bucketing, evaluation, embedding_reads, step_record, train_pos, val_pos, train_callbacks, logs,
                   epoch_count, batch_count, dataset_iter, pass_pairs,
                   pass_batches, callback_index, error, train_step_calls,
                   save_calls, callback_calls, vocab_scans>>

\* Trainer._init_model without one: train_data is iterated once and
\* preprocessed, and _create_tokenizers builds the vocabularies from it.
InitModelBuild ==
    /\ pc = "init_model"
    /\ vectorizer = None
    /\ LET read == Iterate(train_data, train_pos)
           train_preprocessed == [i \in 1..Len(read) |-> Preprocess(train_data.pairs[read[i]])]
       IN  /\ train_pos' = Exhaust(train_data, train_pos)
           /\ vocab_scans' = vocab_scans + 1
           /\ IF ZipUnpackFails(train_preprocessed)
              THEN /\ pc' = "error"
                   /\ error' = "ValueError: not enough values to unpack"
                   /\ UNCHANGED <<summarizer, init_model_calls, last_call,
                                  init_record>>
              ELSE /\ LET built == Vectorizer(CreateTokenizers(train_preprocessed, max_vocab_size))
                           embedding_weights_encoder ==
                               IF glove_path # None THEN <<"encoder matrix">> ELSE None
                           embedding_weights_decoder ==
                               IF glove_path # None THEN <<"decoder matrix">> ELSE None
                       IN  /\ summarizer' = InitModelCall(summarizer, built)
                           /\ init_model_args' = <<InitModelArgs(built,
                                  embedding_weights_encoder, embedding_weights_decoder)>>
                   /\ embedding_reads' = IF glove_path # None THEN embedding_reads + 1
                                         ELSE embedding_reads
                   /\ init_model_calls' = init_model_calls + 1
                   /\ last_call' = [NoCall EXCEPT !.op = "init_model"]
                   /\ pc' = "prepare"
                   /\ UNCHANGED error
    /\ UNCHANGED <<config, bucketing, evaluation, step_record, val_pos, train_callbacks, logs, epoch_count,
                   batch_count, dataset_iter, pass_pairs, pass_batches,
                   callback_index, train_step_calls, save_calls,
                   callback_calls>>

\* The callbacks are chosen, logs = {}, epoch_count, batch_count = 0, 0.
Prepare ==
    /\ pc = "prepare"
    /\ train_callbacks' = SelectCallbacks(callbacks, val_data)
    /\ callback_calls' = [i \in 1..Len(train_callbacks'.list) |-> 0]
    /\ logs' = <<>>
    /\ epoch_count' = 0
    /\ batch_count' = 0
    /\ pc' = "while"
    /\ UNCHANGED <<config, bucketing, evaluation, init_record, step_record, summarizer, train_pos, val_pos, dataset_iter,
                   pass_pairs, pass_batches, callback_index, error,
                   init_model_calls, train_step_calls, save_calls, vocab_scans,
                   last_call>>

\* while epoch_count < num_epochs: a pass over train_dataset.take(-1) starts:
\* the dataset calls its factory, lambda: vectorize_train(train_data), which
\* iterates train_data.
StartPass ==
    /\ pc = "while"
    /\ LoopContinues(epoch_count, num_epochs)
    /\ LET read == Iterate(train_data, train_pos)
       IN  /\ pass_pairs' = read
           /\ dataset_iter' = Batches(read, batch_size)
    /\ train_pos' = Exhaust(train_data, train_pos)
    /\ pass_batches' = 0
    /\ pc' = "for"
    /\ UNCHANGED <<config, bucketing, evaluation, init_record, step_record, summarizer, val_pos, train_callbacks, logs,
                   epoch_count, batch_count, callback_index, error,
                   init_model_calls, train_step_calls, save_calls,
                   callback_calls, vocab_scans, last_call>>

\* The loop condition is false: train returns.
Return ==
    /\ pc = "while"
    /\ ~LoopContinues(epoch_count, num_epochs)
    /\ pc' = "done"
    /\ UNCHANGED <<config, bucketing, evaluation, init_record, step_record, summarizer, train_pos, val_pos, train_callbacks, logs,
                   epoch_count, batch_count, dataset_iter, pass_pairs,
                   pass_batches, callback_index, error, init_model_calls,
                   train_step_calls, save_calls, callback_calls, vocab_scans,
                   last_call>>

\* One iteration of the for loop up to the epoch test: the next batch is
\* pulled, batch_count += 1, train_step returns a loss, logs['loss'] is set.
TrainStep ==
    /\ pc = "for"
    /\ dataset_iter # <<>>
    /\ dataset_iter' = Tail(dataset_iter)
    /\ pass_batches' = pass_batches + 1
    /\ batch_count' = batch_count + 1
    /\ train_step_calls' = train_step_calls + 1
    /\ train_steps_returned' = train_steps_returned + 1
    /\ \E loss \in 1..MaxLoss : train_loss' = <<loss>>
    /\ logs' = SetItem(logs, "loss", train_loss'[1])
    /\ last_call' = [NoCall EXCEPT !.op = "train_step"]
    /\ IF IsEpochEnd(batch_count', steps_per_epoch)
       THEN pc' = "callbacks" /\ callback_index' = 1
       ELSE pc' = "for" /\ UNCHANGED callback_index
    /\ UNCHANGED <<config, bucketing, evaluation, init_record, summarizer, train_pos, val_pos, train_callbacks,
                   epoch_count, pass_pairs, error, init_model_calls, save_calls,
                   callback_calls, vocab_scans>>

\* summarizer.train_step raises: nothing in train catches it.
TrainStepRaises ==
    /\ pc = "for"
    /\ dataset_iter # <<>>
    /\ dataset_iter' = Tail(dataset_iter)
    /\ pass_batches' = pass_batches + 1
    /\ batch_count' = batch_count + 1
    /\ train_step_calls' = train_step_calls + 1
    /\ last_call' = [NoCall EXCEPT !.op = "train_step"]
    /\ pc' = "error"
    /\ error' = "train_step raised"
    /\ UNCHANGED <<config, bucketing, evaluation, init_record, step_record, summarizer, train_pos, val_pos, train_callbacks, logs,
                   epoch_count, pass_pairs, callback_index, init_model_calls,
                   save_calls, callback_calls, vocab_scans>>

\* for callback in train_callbacks: train_callbacks was never assigned
\* (callbacks is None and val_data is None).
CallbacksUnbound ==
    /\ pc = "callbacks"
    /\ ~train_callbacks.bound
    /\ pc' = "error"
    /\ error' = "UnboundLocalError: train_callbacks"
    /\ UNCHANGED <<config, bucketing, evaluation, init_record, step_record, summarizer, train_pos, val_pos, train_callbacks, logs,
                   epoch_count, batch_count, dataset_iter, pass_pairs,
                   pass_batches, callback_index, init_model_calls,
                   train_step_calls, save_calls, callback_calls, vocab_scans,
                   last_call>>

\* callback.on_epoch_end(epoch_count, logs=logs) is called on the callback at
\* callback_index, which is named name: the call is recorded with its
\* arguments as passed.
Invoke(name) ==
    /\ pc = "callbacks"
    /\ train_callbacks.bound
    /\ callback_index <= Len(train_callbacks.list)
    /\ train_callbacks.list[callback_index] = name
    /\ callback_calls' = [callback_calls EXCEPT ![callback_index] = @ + 1]
    /\ last_call' = [op |-> "on_epoch_end", callback |-> callback_index,
                     epoch |-> epoch_count, logs |-> logs]
    /\ callback_index' = callback_index + 1
    /\ UNCHANGED <<config, bucketing, evaluation, init_record, step_record, summarizer, train_pos, train_callbacks, epoch_count,
                   batch_count, dataset_iter, pass_pairs, pass_batches,
                   init_model_calls, train_step_calls, save_calls, vocab_scans>>

\* A callback of the caller's list: it may write to logs (here its own key).
CustomOnEpochEnd ==
    /\ \E name \in Range(train_callbacks.list) \ {"EvaluationCallback",
              "ValidationCallback", "ModelCheckpointCallback", "TensorBoard"} :
            /\ Invoke(name)
            /\ logs' = SetItem(logs, name, epoch_count)
    /\ UNCHANGED <<pc, error, val_pos>>

\* EvaluationCallback.on_epoch_end: self.val_data is iterated, every pair is
\* predicted and scored (a score is 0 or 1 here), and logs[score_name] =
\* float(score / count_val), which divides by zero when no pair was read.
EvaluationOnEpochEnd ==
    /\ Invoke("EvaluationCallback")
    /\ LET pairs_read == Len(Iterate(val_data[1], val_pos))
       IN  IF pairs_read = 0
           THEN /\ pc' = "error"
                /\ error' = "ZeroDivisionError"
                /\ UNCHANGED logs
           ELSE /\ \E score \in 0..pairs_read :
                       logs' = SetItem(logs, "bleu_score", <<score, pairs_read>>)
                /\ UNCHANGED <<pc, error>>
    /\ val_pos' = Exhaust(val_data[1], val_pos)

\* ValidationCallback.on_epoch_end: val_dataset is iterated (its factory
\* iterates val_data) and the validation loss is written to logs.
ValidationOnEpochEnd ==
    /\ Invoke("ValidationCallback")
    /\ val_pos' = Exhaust(val_data[1], val_pos)
    /\ \E loss_val \in 1..MaxLoss : logs' = SetItem(logs, "loss_val", loss_val)
    /\ UNCHANGED <<pc, error>>

\* ModelCheckpointCallback and TensorBoard read logs and write files.
PassiveOnEpochEnd ==
    /\ \E name \in {"ModelCheckpointCallback", "TensorBoard"} : Invoke(name)
    /\ UNCHANGED <<pc, error, val_pos, logs>>

\* Mutant of Save: the model is saved before the callbacks are invoked.
Save_BeforeCallbacks ==
    /\ pc = "callbacks"
    /\ train_callbacks.bound
    /\ callback_index = 1
    /\ save_calls = epoch_count
    /\ save_calls' = save_calls + 1
    /\ last_call' = [NoCall EXCEPT !.op = "save"]
    /\ UNCHANGED <<config, bucketing, evaluation, init_record, step_record, summarizer, train_pos, val_pos, train_callbacks, logs,
                   epoch_count, batch_count, dataset_iter, pass_pairs,
                   pass_batches, pc, callback_index, error, init_model_calls,
                   train_step_calls, callback_calls, vocab_scans>>

\* summarizer.save(self.model_save_path), once every callback has returned.
Save ==
    /\ pc = "callbacks"
    /\ train_callbacks.bound
    /\ callback_index > Len(train_callbacks.list)
    /\ save_calls' = save_calls + 1
    /\ last_call' = [NoCall EXCEPT !.op = "save"]
    /\ pc' = "increment"
    /\ UNCHANGED <<config, bucketing, evaluation, init_record, step_record, summarizer, train_pos, val_pos, train_callbacks, logs,
                   epoch_count, batch_count, dataset_iter, pass_pairs,
                   pass_batches, callback_index, error, init_model_calls,
                   train_step_calls, callback_calls, vocab_scans>>

\* Mutant of IncrementEpoch: logs starts empty in every epoch.
IncrementEpoch_ResetsLogs ==
    /\ pc = "increment"
    /\ epoch_count' = epoch_count + 1
    /\ logs' = <<>>
    /\ pc' = "for"
    /\ UNCHANGED <<config, bucketing, evaluation, init_record, step_record, summarizer,
                   train_pos, val_pos, train_callbacks, batch_count, dataset_iter,
                   pass_pairs, pass_batches, callback_index, error, init_model_calls,
                   train_step_calls, save_calls, callback_calls, vocab_scans, last_call>>

\* epoch_count += 1, and the for loop goes on.
IncrementEpoch ==
    /\ pc = "increment"
    /\ epoch_count' = epoch_count + 1
    /\ pc' = "for"
    /\ UNCHANGED <<config, bucketing, evaluation, init_record, step_record, summarizer, train_pos, val_pos, train_callbacks, logs,
                   batch_count, dataset_iter, pass_pairs, pass_batches,
                   callback_index, error, init_model_calls, train_step_calls,
                   save_calls, callback_calls, vocab_scans, last_call>>

\* The dataset is exhausted: if batch_count == 0: raise ValueError(...),
\* else back to the while test.
EndPass ==
    /\ pc = "for"
    /\ dataset_iter = <<>>
    /\ IF ZeroBatches(batch_count)
       THEN /\ pc' = "error"
            /\ error' = "ValueError: zero batches"
       ELSE /\ pc' = "while"
            /\ UNCHANGED error
    /\ UNCHANGED <<config, bucketing, evaluation, init_record, step_record, summarizer, train_pos, val_pos, train_callbacks, logs,
                   epoch_count, batch_count, dataset_iter, pass_pairs,
                   pass_batches, callback_index, init_model_calls,
                   train_step_calls, save_calls, callback_calls, vocab_scans,
                   last_call>>

Next ==
    \/ TrainEnter
    \/ InitModelCustom
    \/ InitModelBuild
    \/ Prepare
    \/ StartPass
    \/ Return
    \/ TrainStep
    \/ TrainStepRaises
    \/ CallbacksUnbound
    \/ CustomOnEpochEnd
    \/ EvaluationOnEpochEnd
    \/ ValidationOnEpochEnd
    \/ PassiveOnEpochEnd
    \/ Save
    \/ IncrementEpoch
    \/ EndPass

Spec == Init /\ [][Next]_vars

\* ------------------------------------------------- vocabulary construction
\* train is entered with a bare summarizer and no custom vectorizer, over
\* every small corpus and max_vocab_size, and runs through _init_model.
InitVocab ==
    /\ batch_size = 1
    /\ max_vocab_size \in 0..MaxVocabSize
    /\ glove_path = None
    /\ steps_per_epoch = 1
    /\ vectorizer = None
    /\ summarizer = [preprocessor |-> None, vectorizer |-> None]
    /\ train_data \in [kind : {"list"}, pairs : Corpora(MaxVocabPairs, MaxCorpusTokens)]
    /\ val_data = None
    /\ num_epochs = 0
    /\ callbacks = None
    /\ Entry
    /\ BucketIdle
    /\ EvalIdle

NextVocab ==
    \/ TrainEnter
    \/ InitModelBuild

SpecVocab == InitVocab /\ [][NextVocab]_vars

\* --------------------------------------------------------- BucketGenerator
\* The generator the Trainer builds with element_length_function =
\* lambda vecs: len(vecs[0]), batch_size = self.batch_size, shuffle = True and
\* seed = 42.  An element of the vectorized stream is <<its arrival index,
\* the length of its source sequence>>.
element_length_function(vecs) == vecs[2]

Elements(lengths) == [i \in 1..Len(lengths) |-> <<i, lengths[i]>>]

SeqsUpTo(S, n) == UNION {[1..k -> S] : k \in 0..n}

\* e put behind every element of an ascending window whose key is not greater.
RECURSIVE InsertByLength(_, _)
InsertByLength(sorted, e) ==
    IF sorted = <<>> THEN <<e>>
    ELSE IF element_length_function(Head(sorted)) <= element_length_function(e)
         THEN <<Head(sorted)>> \o InsertByLength(Tail(sorted), e)
         ELSE <<e>> \o sorted

\* The window sorted by the length key, ascending, equal keys in arrival order.
RECURSIVE SortByLength(_)
SortByLength(window) ==
    IF window = <<>> THEN <<>>
    ELSE InsertByLength(SortByLength(SubSeq(window, 1, Len(window) - 1)),
                        window[Len(window)])

\* The orders a shuffle of n batches can produce.  The generator is seeded,
\* so a run draws one of them; which one is not fixed by the algorithm.
Orders(n) == {p \in [1..n -> 1..n] : \A i, j \in 1..n : p[i] = p[j] => i = j}

Reorder(batches, p) == [i \in 1..Len(batches) |-> batches[p[i]]]

\* The batches of one window in the order they will be yielded.
BucketOrders(batches, shuffled) ==
    IF shuffled THEN {Reorder(batches, p) : p \in Orders(Len(batches))}
    ELSE {batches}

\* The trainer is not running: the fields and arguments of a Trainer that
\* only constructed its generator.
TrainerIdle ==
    /\ max_vocab_size = DefaultMaxVocabSize
    /\ glove_path = None
    /\ steps_per_epoch = 1
    /\ vectorizer = None
    /\ summarizer = [preprocessor |-> None, vectorizer |-> None]
    /\ train_data = [kind |-> "list", pairs |-> <<>>]
    /\ num_epochs = 0
    /\ callbacks = None
    /\ Entry

\* The generator is called on every short stream of elements.
InitBucket ==
    /\ batch_size \in 1..MaxBatchSize
    /\ batches_to_bucket \in 1..MaxBatchesToBucket
    /\ shuffle \in BOOLEAN
    /\ bucket_input \in {Elements(l) : l \in SeqsUpTo(1..MaxSeqLen, MaxBucketInput)}
    /\ upstream = bucket_input
    /\ ready = <<>>
    /\ emitted = <<>>
    /\ bucket_pc = "fill"
    /\ val_data = None
    /\ TrainerIdle
    /\ EvalIdle

\* Fill the window with up to batches_to_bucket * batch_size elements, sort it
\* by the length key, slice it into batches and, if shuffle, shuffle the order
\* of these batches.
FillBucket ==
    /\ bucket_pc = "fill"
    /\ upstream # <<>>
    /\ LET n == Min(batches_to_bucket * batch_size, Len(upstream))
           window == SubSeq(upstream, 1, n)
           batches == Batches(SortByLength(window), batch_size)
       IN  /\ upstream' = SubSeq(upstream, n + 1, Len(upstream))
           /\ ready' \in BucketOrders(batches, shuffle)
    /\ bucket_pc' = IF ready' = <<>> THEN "fill" ELSE "yield"
    /\ UNCHANGED <<config, init_record, step_record, trainer_locals, logs, val_pos,
                   error, evaluation, batches_to_bucket, shuffle, bucket_input,
                   emitted>>

\* Yield the next batch of the window.
YieldBatch ==
    /\ bucket_pc = "yield"
    /\ emitted' = Append(emitted, Head(ready))
    /\ ready' = Tail(ready)
    /\ bucket_pc' = IF Tail(ready) = <<>> THEN "fill" ELSE "yield"
    /\ UNCHANGED <<config, init_record, step_record, trainer_locals, logs, val_pos,
                   error, evaluation, batches_to_bucket, shuffle, bucket_input,
                   upstream>>

\* Upstream is exhausted and the window is drained: the generator ends.
BucketExhausted ==
    /\ bucket_pc = "fill"
    /\ upstream = <<>>
    /\ bucket_pc' = "exhausted"
    /\ UNCHANGED <<config, init_record, step_record, trainer_locals, logs, val_pos,
                   error, evaluation, batches_to_bucket, shuffle, bucket_input,
                   upstream, ready, emitted>>

NextBucket ==
    \/ FillBucket
    \/ YieldBatch
    \/ BucketExhausted

SpecBucket == InitBucket /\ [][NextBucket]_vars

\* ------------------------------------------ EvaluationCallback.on_epoch_end
\* The keys of a scorers dict of k scorers, in its order.
ScorerNames(k) == [i \in 1..k |-> IF i = 1 THEN "bleu_score" ELSE "score" \o ToString(i)]

\* The logs a caller hands to on_epoch_end: nothing, or a dict that may hold
\* the training loss and scores of an earlier epoch.
LogsArguments ==
    {None, <<<<>>>>, <<SetItem(<<>>, "loss", 1)>>,
     <<SetItem(SetItem(<<>>, "loss", 1), "bleu_score", <<MaxScore, 1>>)>>}

\* on_epoch_end is called once on a callback over every small val_data.
InitEval ==
    /\ batch_size = 1
    /\ val_data \in {<<d>> : d \in [kind : {"list", "generator"},
                                    pairs : {Corpus(n) : n \in 0..MaxEvalPairs}]}
    /\ scorers \in {ScorerNames(k) : k \in 0..MaxScorers}
    /\ print_num_examples \in 0..MaxPrintExamples
    /\ logs_on_entry \in LogsArguments
    /\ val_scores = <<>>
    /\ count_val = 0
    /\ eval_iter = <<>>
    /\ predict_calls = <<>>
    /\ scorer_calls = <<>>
    /\ logged = <<>>
    /\ eval_pc = "call"
    /\ TrainerIdle
    /\ BucketIdle

\* if logs is None: logs = {}; val_scores = {score_name: 0. ...};
\* count_val = 0; the iteration over self.val_data starts.
EvalBegin ==
    /\ eval_pc = "call"
    /\ logs' = IF logs_on_entry = None THEN <<>> ELSE logs_on_entry[1]
    /\ val_scores' = [name \in Range(scorers) |-> 0]
    /\ count_val' = 0
    /\ eval_iter' = Iterate(val_data[1], val_pos)
    /\ val_pos' = Exhaust(val_data[1], val_pos)
    /\ eval_pc' = "loop"
    /\ UNCHANGED <<config, init_record, step_record, trainer_locals, bucketing, error,
                   scorers, print_num_examples, logs_on_entry, predict_calls,
                   scorer_calls, logged>>

\* The scorer calls of one prediction: every scorer in the order of the dict.
ScoreCalls(d, score) == [i \in 1..Len(scorers) |-> <<d, scorers[i], score[scorers[i]]>>]

\* Mutant of AddScore: the score replaces the sum.
AddScore_Overwrite(sum, score) == score

\* val_scores[score_name] += score
AddScore(sum, score) == sum + score

\* One pass of the loop body over the next pair d of val_data.
EvalPair ==
    /\ eval_pc = "loop"
    /\ eval_iter # <<>>
    /\ LET d == Head(eval_iter)
       IN  /\ count_val' = count_val + 1
           /\ predict_calls' = Append(predict_calls, d)
           /\ logged' = IF count_val' <= print_num_examples THEN Append(logged, d)
                        ELSE logged
           /\ \E score \in [Range(scorers) -> 0..MaxScore] :
                 /\ scorer_calls' = scorer_calls \o ScoreCalls(d, score)
                 /\ val_scores' = [name \in Range(scorers) |->
                                      AddScore(val_scores[name], score[name])]
    /\ eval_iter' = Tail(eval_iter)
    /\ UNCHANGED <<config, init_record, step_record, trainer_locals, bucketing, logs,
                   val_pos, error, scorers, print_num_examples, logs_on_entry, eval_pc>>

\* logs[score_name] = float(score / count_val) for every scorer, in order.
RECURSIVE WriteScores(_, _, _, _)
WriteScores(d, names, sums, count) ==
    IF names = <<>> THEN d
    ELSE WriteScores(SetItem(d, Head(names), <<sums[Head(names)], count>>),
                     Tail(names), sums, count)

\* The loop is over: the means are written, and the first division raises
\* when no pair was read.
EvalFinish ==
    /\ eval_pc = "loop"
    /\ eval_iter = <<>>
    /\ IF count_val = 0 /\ scorers # <<>>
       THEN /\ eval_pc' = "raised"
            /\ error' = "ZeroDivisionError"
            /\ UNCHANGED logs
       ELSE /\ eval_pc' = "returned"
            /\ logs' = WriteScores(logs, scorers, val_scores, count_val)
            /\ UNCHANGED error
    /\ UNCHANGED <<config, init_record, step_record, trainer_locals, bucketing, val_pos,
                   scorers, print_num_examples, logs_on_entry, val_scores, count_val,
                   eval_iter, predict_calls, scorer_calls, logged>>

NextEval ==
    \/ EvalBegin
    \/ EvalPair
    \/ EvalFinish

SpecEval == InitEval /\ [][NextEval]_vars

\* ------------------------------------------------------------------ claims
UnpackError == "ValueError: not enough values to unpack"

AllPositions(data) == [i \in 1..Len(data.pairs) |-> i]

\* C1: train halts when epoch_count reaches num_epochs: it returns with
\* epoch_count = num_epochs, and once epoch_count = num_epochs inside the loop
\* no train_step, no callback and no save is invoked any more.
C1_HaltsAtNumEpochs ==
    /\ [](pc = "done" => epoch_count = num_epochs)
    /\ [][(pc \in {"while", "for", "callbacks", "increment"} /\ epoch_count = num_epochs)
            => UNCHANGED <<train_step_calls, callback_calls, save_calls>>]_vars

\* C2: a pass over the training dataset that yields zero batches, the first
\* or a later one, ends with the zero-batches ValueError and not with another
\* pass.
C2_ZeroBatchPassFails ==
    [][(pc = "for" /\ dataset_iter = <<>> /\ pass_batches = 0)
        => (pc' = "error" /\ error' = "ValueError: zero batches")]_vars

\* C3: after every completed loop iteration epoch_count is
\* floor(batch_count / steps_per_epoch) and every registered callback and
\* save have been invoked exactly epoch_count times; batch_count and
\* epoch_count never decrease (they are not reset between passes).
C3_EpochBookkeeping ==
    /\ [](pc \in {"while", "for", "done"} =>
            /\ epoch_count = batch_count \div steps_per_epoch
            /\ save_calls = epoch_count
            /\ \A i \in 1..Len(callback_calls) : callback_calls[i] = epoch_count
            /\ train_callbacks.bound => Len(callback_calls) = Len(train_callbacks.list))
    /\ [][batch_count' >= batch_count /\ epoch_count' >= epoch_count]_vars

\* C3's case: two callbacks, steps_per_epoch = 2, the second batch was the
\* first batch of a second pass and closed the first epoch.
C3_Witness ==
    /\ pc = "for"
    /\ steps_per_epoch = 2
    /\ batch_count = 2
    /\ pass_batches = 1
    /\ epoch_count = 1
    /\ save_calls = 1
    /\ callback_calls = <<1, 1>>

\* C4: at an epoch boundary the callbacks are invoked in list order, each
\* with the loop's logs mapping and the pre-increment epoch index, then save
\* is called, then epoch_count is incremented, with no train_step in
\* between; a caller's callbacks list is the list that is invoked.
C4_EpochEndOrder ==
    [][/\ (pc = "callbacks" /\ callback_calls' # callback_calls) =>
            LET i == last_call'.callback
            IN  /\ last_call'.op = "on_epoch_end"
                /\ callback_calls' = [callback_calls EXCEPT ![i] = @ + 1]
                /\ \A j \in 1..Len(callback_calls) :
                       callback_calls[j] = IF j < i THEN epoch_count + 1 ELSE epoch_count
                /\ IF i = 1 THEN last_call.op = "train_step"
                   ELSE /\ last_call.op = "on_epoch_end"
                        /\ last_call.callback = i - 1
                        /\ last_call.epoch = last_call'.epoch
                /\ last_call'.epoch = epoch_count
                /\ last_call'.epoch = save_calls
                /\ last_call'.logs = logs
                /\ "loss" \in DOMAIN logs
                /\ callbacks # None =>
                       /\ train_callbacks.list = callbacks[1]
                       /\ train_callbacks.list[i] = callbacks[1][i]
                /\ UNCHANGED <<train_step_calls, save_calls, epoch_count>>
       /\ save_calls' # save_calls =>
                /\ save_calls' = save_calls + 1
                /\ save_calls = epoch_count
                /\ \A j \in 1..Len(callback_calls) : callback_calls[j] = epoch_count + 1
                /\ Len(callback_calls) = Len(train_callbacks.list)
                /\ IF callback_calls = <<>> THEN last_call.op = "train_step"
                   ELSE /\ last_call.op = "on_epoch_end"
                        /\ last_call.callback = Len(callback_calls)
                /\ UNCHANGED <<train_step_calls, callback_calls, epoch_count>>
       /\ epoch_count' # epoch_count =>
                /\ epoch_count' = epoch_count + 1
                /\ last_call.op = "save"
                /\ save_calls = epoch_count + 1
                /\ UNCHANGED <<train_step_calls, callback_calls, save_calls>>
       /\ train_step_calls' # train_step_calls =>
                /\ save_calls = epoch_count
                /\ \A j \in 1..Len(callback_calls) : callback_calls[j] = epoch_count
                /\ UNCHANGED <<callback_calls, save_calls, epoch_count>>
      ]_vars

\* C4's case: the second epoch boundary of a run with a caller's list of two
\* callbacks has reached save.
C4_Witness ==
    /\ callbacks # None
    /\ Len(train_callbacks.list) = 2
    /\ last_call.op = "save"
    /\ epoch_count = 1
    /\ callback_calls = <<2, 2>>
    /\ save_calls = 2

\* C5: every pass of the training loop reads the whole corpus, from its first
\* pair, whether train_data is a list or a single-pass iterable.
C5_EveryPassReadsWholeCorpus ==
    pc \in {"for", "callbacks", "increment"} => pass_pairs = AllPositions(train_data)

\* C6 as stated: a bare summarizer gets init_model exactly once, before the
\* first train_step; an initialised one never, and train_data is not scanned.
C6_InitExactlyOnceWhenBare ==
    /\ init_model_calls <= 1
    /\ (bare_on_entry /\ pc \notin {"start", "init_model"}) => init_model_calls = 1
    /\ (bare_on_entry /\ train_step_calls > 0) => init_model_calls = 1
    /\ ~bare_on_entry => (init_model_calls = 0 /\ vocab_scans = 0)

\* C6, amended: a bare summarizer gets init_model at most once and before the
\* first train_step, and exactly once unless vocabulary construction fails on
\* an empty train_data, which ends the run with init_model never invoked; an
\* initialised summarizer never gets it, and train_data is not scanned.
C6_InitOnceUnlessVocabularyFails ==
    /\ init_model_calls <= 1
    /\ vocab_scans <= 1
    /\ (bare_on_entry /\ pc \notin {"start", "init_model"}) =>
            \/ init_model_calls = 1
            \/ /\ pc = "error"
               /\ error = UnpackError
               /\ Len(train_data.pairs) = 0
               /\ init_model_calls = 0
               /\ train_step_calls = 0
    /\ (bare_on_entry /\ train_step_calls > 0) => init_model_calls = 1
    /\ ~bare_on_entry => (init_model_calls = 0 /\ vocab_scans = 0)

\* C6's case: a summarizer with a preprocessor and no vectorizer was
\* initialised from a scanned corpus and has trained on two batches.
C6_Witness ==
    /\ bare_on_entry
    /\ init_model_calls = 1
    /\ vocab_scans = 1
    /\ train_step_calls = 2
    /\ summarizer.vectorizer[1].kind = "built"

\* C7: with val_data = None and callbacks = None train passes every epoch
\* boundary without error; the default callbacks are used only when callbacks
\* is None and val_data is given.
C7_ValidationDataOptional ==
    /\ (callbacks = None /\ val_data = None) => pc # "error" \/ error \in
            {UnpackError, "ValueError: zero batches", "train_step raised"}
    /\ (train_callbacks.bound /\ "EvaluationCallback" \in Range(train_callbacks.list))
            => (callbacks = None /\ val_data # None)

\* C8: with an empty corpus, a bare summarizer and no custom vectorizer train
\* fails in _create_tokenizers, before init_model, any train_step, any
\* callback or any save.
C8_EmptyCorpusFailsInVocabulary ==
    (/\ bare_on_entry
     /\ vectorizer = None
     /\ Len(train_data.pairs) = 0
     /\ pc \notin {"start", "init_model"}) =>
        /\ pc = "error"
        /\ error = UnpackError
        /\ vocab_scans = 1
        /\ init_model_calls = 0
        /\ train_step_calls = 0
        /\ save_calls = 0
        /\ callback_calls = <<>>
        /\ last_call = NoCall

\* C8's case: the run of a bare summarizer over an empty corpus has failed.
C8_Witness ==
    /\ bare_on_entry
    /\ vectorizer = None
    /\ train_data.pairs = <<>>
    /\ pc = "error"
    /\ vocab_scans = 1

\* The tokens of one side (1 the encoder's, 2 the decoder's) of the
\* preprocessed corpus, in reading order.
RECURSIVE SideStream(_, _)
SideStream(pairs, side) ==
    IF pairs = <<>> THEN <<>>
    ELSE Split(Preprocess(Head(pairs))[side]) \o SideStream(Tail(pairs), side)

Occurrences(t, stream) == Cardinality({i \in 1..Len(stream) : stream[i] = t})

FirstSeen(t, stream) ==
    CHOOSE i \in 1..Len(stream) :
        stream[i] = t /\ \A j \in 1..(i - 1) : stream[j] # t

\* u is more frequent than t, or as frequent and seen first.
Ahead(u, t, stream) ==
    \/ Occurrences(u, stream) > Occurrences(t, stream)
    \/ /\ Occurrences(u, stream) = Occurrences(t, stream)
       /\ FirstSeen(u, stream) < FirstSeen(t, stream)

\* The k tokens of highest frequency, ties broken by first-seen order.
TopTokens(stream, k) ==
    {t \in Range(stream) : Cardinality({u \in Range(stream) : Ahead(u, t, stream)}) < k}

\* The tokenizer _init_model built for a side, and the tokens it was fitted on.
BuiltTokenizer(side) ==
    IF side = 1 THEN summarizer.vectorizer[1].encoder ELSE summarizer.vectorizer[1].decoder

FittedTokens(side) == {wc[1] : wc \in Range(BuiltTokenizer(side).word_counts)}

VocabularyBuilt ==
    /\ init_model_calls = 1
    /\ summarizer.vectorizer # None
    /\ summarizer.vectorizer[1].kind = "built"

TokenRank(t) == CHOOSE i \in 1..Len(SortedTokens) : SortedTokens[i] = t

\* C9: each side's vocabulary is the max_vocab_size most frequent tokens of
\* that side alone (ties: first seen first) together with the start and the
\* end token: it holds both reserved tokens, no other token outside that
\* selection, and at most max_vocab_size + 2 tokens before the oov token.
C9_TopFrequencySelection ==
    VocabularyBuilt =>
        \A side \in {1, 2} :
            LET stream == SideStream(train_data.pairs, side)
                tokens == FittedTokens(side)
            IN  /\ {START_TOKEN, END_TOKEN} \subseteq tokens
                /\ tokens \ {START_TOKEN, END_TOKEN} \subseteq TopTokens(stream, max_vocab_size)
                /\ TopTokens(stream, max_vocab_size) \subseteq tokens
                /\ Cardinality(tokens) <= max_vocab_size + 2
                /\ DOMAIN BuiltTokenizer(side).word_index = tokens \cup {OOV_TOKEN}

\* C9's case: max_vocab_size = 2 and the source side reads "a b": a and b are
\* equally frequent, a was seen first and is selected, b is not; the target
\* side, which holds only b, selects b.
C9_Witness ==
    /\ VocabularyBuilt
    /\ max_vocab_size = 2
    /\ SideStream(train_data.pairs, 1) = <<START_TOKEN, "a", "b", END_TOKEN>>
    /\ FittedTokens(1) = {START_TOKEN, "a", END_TOKEN}
    /\ "b" \in FittedTokens(2)

\* C10: the token -> id mapping of each side is injective, its ids are
\* exactly 1..n with the oov token at 1 and the other tokens following in
\* sorted order, 0 is not an id, and building again from the same corpus
\* gives the same mapping.
C10_DenseSortedIds ==
    VocabularyBuilt =>
        \A side \in {1, 2} :
            LET word_index == BuiltTokenizer(side).word_index
                n == Cardinality(DOMAIN word_index)
                again == CreateTokenizers(
                             [i \in 1..Len(train_data.pairs) |-> Preprocess(train_data.pairs[i])],
                             max_vocab_size)
            IN  /\ \A t, u \in DOMAIN word_index : word_index[t] = word_index[u] => t = u
                /\ {word_index[t] : t \in DOMAIN word_index} = 1..n
                /\ word_index[OOV_TOKEN] = 1
                /\ \A t, u \in (DOMAIN word_index) \ {OOV_TOKEN} :
                       TokenRank(t) < TokenRank(u) => word_index[t] < word_index[u]
                /\ word_index = (IF side = 1 THEN again.encoder ELSE again.decoder).word_index

RECURSIVE Concat(_)
Concat(batches) ==
    IF batches = <<>> THEN <<>> ELSE Head(batches) \o Concat(Tail(batches))

\* C11: every batch the bucket generator emits, except possibly the last one
\* emitted, has exactly batch_size elements, shuffle = True included.
C11_OnlyLastBatchShort ==
    \A i \in 1..(Len(emitted) - 1) : Len(emitted[i]) = batch_size

\* C12: without shuffling, the batches emitted over an input of N elements
\* hold exactly the multiset of the input and their sizes sum to N; with
\* 1 <= N < batch_size exactly one batch, of size N, is emitted, and with
\* N = 0 none.
C12_NoShufflePreservesPairs ==
    (bucket_pc = "exhausted" /\ ~shuffle) =>
        LET out == Concat(emitted)
            N == Len(bucket_input)
        IN  /\ \A e \in Range(bucket_input) \cup Range(out) :
                    Occurrences(e, out) = Occurrences(e, bucket_input)
            /\ Len(out) = N
            /\ (1 <= N /\ N < batch_size) => (Len(emitted) = 1 /\ Len(emitted[1]) = N)
            /\ (N = 0) => (emitted = <<>>)

\* Two windows were sorted (the first one out of arrival order) and the last
\* batch is short.
C12_Witness ==
    /\ bucket_pc = "exhausted"
    /\ ~shuffle
    /\ batches_to_bucket * batch_size < Len(bucket_input)
    /\ element_length_function(bucket_input[1]) > element_length_function(bucket_input[2])
    /\ Concat(emitted) # bucket_input
    /\ Len(emitted[Len(emitted)]) < batch_size

\* C13: a train_step that raises aborts train: the run is over with that
\* error, after the failing call nothing is pulled, invoked, saved or
\* incremented, and at the failure batch_count equals the number of
\* train_step calls that returned.
C13_FailingStepAborts ==
    (error = "train_step raised") =>
        /\ pc = "error"
        /\ last_call.op = "train_step"
        /\ train_step_calls = train_steps_returned + 1
        /\ save_calls = epoch_count
        /\ \A i \in DOMAIN callback_calls : callback_calls[i] = epoch_count
        /\ batch_count = train_steps_returned

Ceil(a, b) == (a + b - 1) \div b

\* C14: over a re-iterable train_data whose every pass yields N >= 1 batches,
\* train returns (it does not end in an error of its own), having executed
\* exactly N * ceil(num_epochs * steps_per_epoch / N) train steps, one
\* train_step per batch pulled.
C14_ReturnsAfterWholePasses ==
    LET N == Len(Batches(train_data.pairs, batch_size))
    IN  (train_data.kind = "list" /\ N >= 1) =>
            /\ batch_count = train_step_calls
            /\ (pc = "error") => (error = "train_step raised")
            /\ (pc = "done") =>
                  train_step_calls = N * Ceil(num_epochs * steps_per_epoch, N)

\* C15: with a custom vectorizer, initializing a bare summarizer reads no
\* train_data (no vocabulary scan: the first training pass still gets the
\* whole of a single-pass corpus), reads no embedding file even with
\* glove_path set, and calls init_model with the trainer's preprocessor, the
\* custom vectorizer and both embedding weights None.
C15_CustomVectorizerInit ==
    (vectorizer # None /\ bare_on_entry) =>
        /\ vocab_scans = 0
        /\ embedding_reads = 0
        /\ (pc \in {"start", "init_model", "prepare", "while"} /\ batch_count = 0)
              => train_pos = 0
        /\ (pc \in {"for", "callbacks", "increment"} /\ batch_count = pass_batches)
              => pass_pairs = AllPositions(train_data)
        /\ (pc \notin {"start", "init_model"}) =>
              /\ init_model_calls = 1
              /\ init_model_args = <<[preprocessor |-> "Preprocessor",
                                      vectorizer |-> vectorizer[1],
                                      embedding_weights_encoder |-> None,
                                      embedding_weights_decoder |-> None]>>

\* A bare summarizer was initialized with the custom vectorizer, glove_path
\* set, and the first pass over a single-pass corpus is under way.
C15_Witness ==
    /\ vectorizer # None
    /\ bare_on_entry
    /\ glove_path # None
    /\ train_data.kind = "generator"
    /\ Len(train_data.pairs) = MaxPairs
    /\ pc = "for"
    /\ batch_count = 1
    /\ pass_batches = 1
    /\ init_model_calls = 1

\* The sum of the scores that the scorer called name returned.
RECURSIVE ScoreSum(_, _)
ScoreSum(calls, name) ==
    IF calls = <<>> THEN 0
    ELSE (IF Head(calls)[2] = name THEN Head(calls)[3] ELSE 0) + ScoreSum(Tail(calls), name)

\* The logs the caller handed in, as a dict.
GivenLogs == IF logs_on_entry = None THEN <<>> ELSE logs_on_entry[1]

\* C16: over a val_data of n >= 1 pairs on_epoch_end calls predict_vectors
\* once per pair in val_data order and every scorer once per prediction, and
\* on return logs[name] is the sum of that scorer's n scores over n for every
\* scorer; every other key of logs is unchanged, and the predictions logged
\* are the first ones, at most print_num_examples of them.
C16_MeanScorePerScorer ==
    LET n == Len(val_data[1].pairs)
    IN  (eval_pc = "returned" /\ n >= 1) =>
            /\ predict_calls = [i \in 1..n |-> i]
            /\ Len(scorer_calls) = n * Len(scorers)
            /\ \A i \in 1..n : \A k \in 1..Len(scorers) :
                   /\ scorer_calls[(i - 1) * Len(scorers) + k][1] = i
                   /\ scorer_calls[(i - 1) * Len(scorers) + k][2] = scorers[k]
            /\ \A name \in Range(scorers) :
                   /\ name \in DOMAIN logs
                   /\ logs[name] = <<ScoreSum(scorer_calls, name), n>>
            /\ DOMAIN logs = DOMAIN GivenLogs \cup Range(scorers)
            /\ \A key \in DOMAIN GivenLogs \ Range(scorers) : logs[key] = GivenLogs[key]
            /\ logged = [i \in 1..Min(print_num_examples, n) |-> i]

\* Two pairs were scored by two scorers with different sums, fewer examples
\* were logged than predicted, and the logs handed in held other keys.
C16_Witness ==
    /\ eval_pc = "returned"
    /\ Len(val_data[1].pairs) = 2
    /\ Len(scorers) = 2
    /\ logs[scorers[1]] = <<2, 2>>
    /\ logs[scorers[2]] = <<1, 2>>
    /\ print_num_examples = 1
    /\ logged = <<1>>
    /\ "loss" \in DOMAIN logs

\* C17: EvaluationCallback.on_epoch_end never raises at an epoch end of a
\* run and scores the whole of val_data each time, an empty val_data and a
\* single-pass val_data consumed by the previous evaluation included.
C17_EvaluationNeverRaises ==
    /\ error # "ZeroDivisionError"
    /\ (val_data # None /\ "bleu_score" \in DOMAIN logs)
          => logs["bleu_score"][2] = Len(val_data[1].pairs)

\* C18: logs is one mapping for the whole run.  train itself writes only
\* logs['loss'], the loss the most recent train_step returned, and that is
\* the value every callback is invoked with; no step removes a key, and a
\* key a callback wrote at an earlier epoch end is still there, with the
\* value last written, in the logs every later invocation gets.
C18_LogsOnlyLoss ==
    [][/\ DOMAIN logs \subseteq DOMAIN logs'
       /\ (callback_calls' = callback_calls) =>
             /\ DOMAIN logs' \subseteq DOMAIN logs \cup {"loss"}
             /\ \A key \in DOMAIN logs \ {"loss"} : logs'[key] = logs[key]
             /\ (logs' # logs) =>
                   /\ train_steps_returned' = train_steps_returned + 1
                   /\ logs'["loss"] = train_loss'[1]
       /\ (pc = "callbacks" /\ callback_calls' # callback_calls) =>
             /\ last_call'.logs = logs
             /\ train_loss # None
             /\ logs["loss"] = train_loss[1]
             /\ \A j \in 1..Len(callback_calls) :
                   (callback_calls[j] >= 1 /\ callbacks # None) =>
                       /\ train_callbacks.list[j] \in DOMAIN logs
                       /\ logs[train_callbacks.list[j]] = callback_calls[j] - 1
      ]_vars

\* The second callback is invoked at the second epoch end: the logs it gets
\* hold the loss of the last of two steps, the key the first callback has
\* just rewritten and its own key from the first epoch end.
C18_Witness ==
    /\ last_call.op = "on_epoch_end"
    /\ last_call.epoch = 1
    /\ last_call.callback = 2
    /\ steps_per_epoch = 2
    /\ train_steps_returned = 4
    /\ DOMAIN last_call.logs = {"loss", "callback1", "callback2"}
    /\ last_call.logs["callback1"] = 1
    /\ last_call.logs["callback2"] = 0
    /\ last_call.logs["loss"] = train_loss[1]

====
